---- MODULE Spec2Model ----
(***************************************************************************)
(* Casing calculator: section assembly (WellBoreExpanded), the per-section *)
(* mechanical calculator (CasingDataCalc), the inter-section burst         *)
(* analysis and the calculation pass, modelled from src/CasingCalcMain.py. *)
(*                                                                         *)
(* Numbers.  The program computes in floating point; the model computes in *)
(* integers.  Raw inputs are integers.  A derived quantity is stored as an *)
(* integer multiple of a fixed unit that is stated where it is computed    *)
(* (pressures in 1/Scale psi, so that the factor 0.05194806 is exact).     *)
(* A design factor is kept as the pair strength / load, unevaluated, or as *)
(* the positive-infinity sentinel.                                         *)
(***************************************************************************)
EXTENDS Integers, Sequences, FiniteSets, TLC

\* ------------------------------------------------------------------ bounds
\* Depths offered to the constructor and to addSection range over 0..MaxDepth.
MaxDepth == 3
\* addSection is offered while fewer than MaxSections sections are staged.
MaxSections == 3

\* --------------------------------------------------------------- constants
\* 0.05194806 psi/ft per ppg, in units of 1/Scale.
Conv == 5194806
\* 0.052 (collapse load), in thousandths.
Conv052 == 52
\* pore pressure gradient 0.465 psi/ft, in thousandths.
PoreGradient == 465
\* 183.35, in hundredths.
AnnularConv == 18335
\* 65.4 ppg, in tenths.
BuoyDensity == 654
\* pi / 4 in units of 1/10000 (math.pi / 4 = 0.78539...).
PiOver4 == 7854
Scale == 10000 * 10000
Scale4 == 100 * 100

\* ----------------------------------------------------------------- helpers
Max2(a, b) == IF a >= b THEN a ELSE b
Min2(a, b) == IF a <= b THEN a ELSE b
Abs(a) == IF a < 0 THEN 0 - a ELSE a
\* Quotient rounded toward zero (the sign behaviour of a float quotient).
TruncDiv(a, b) ==
    IF (a >= 0) = (b > 0) THEN Abs(a) \div Abs(b) ELSE 0 - (Abs(a) \div Abs(b))

\* A Python dict with insertion order: a sequence of [key, val] items.  A key
\* is a positional index or a casing-type label.
IdxKey(i) == [idx |-> i, label |-> ""]
LabelKey(l) == [idx |-> 0 - 1, label |-> l]
HasKey(d, k) == \E i \in 1..Len(d) : d[i].key = k
PosOf(d, k) == CHOOSE i \in 1..Len(d) : d[i].key = k
GetItem(d, k) == d[PosOf(d, k)].val
\* d[k] = v : replaces in place when k is present, appends otherwise.
SetItem(d, k, v) ==
    IF HasKey(d, k)
    THEN [d EXCEPT ![PosOf(d, k)] = [key |-> k, val |-> v]]
    ELSE Append(d, [key |-> k, val |-> v])
\* d.pop(k) leaves the other items in order.
PopItem(d, k) == SelectSeq(d, LAMBDA it : it.key # k)
\* dict.update / keyword overwrite: the fields of new win.
Update(old, new) == new @@ old
DictGet(rec, k, default) == IF k \in DOMAIN rec THEN rec[k] ELSE default

\* sorted(items, key=..., reverse=...) is stable: an item goes after every
\* item already placed whose key does not come after its own.  keys[i] is the
\* sort key of item i; the result lists the item positions in sorted order.
RECURSIVE InsertSorted(_, _, _, _)
InsertSorted(done, i, keys, reverse) ==
    IF done = <<>> THEN <<i>>
    ELSE LET last == done[Len(done)]
             after == IF reverse THEN keys[last] >= keys[i] ELSE keys[last] <= keys[i]
         IN IF after THEN Append(done, i)
            ELSE Append(InsertSorted(SubSeq(done, 1, Len(done) - 1), i, keys, reverse), last)

RECURSIVE SortOrder(_, _, _, _)
SortOrder(done, i, keys, reverse) ==
    IF i > Len(keys) THEN done
    ELSE SortOrder(InsertSorted(done, i, keys, reverse), i + 1, keys, reverse)

SortItems(d, keys, reverse) ==
    LET order == SortOrder(<<>>, 1, keys, reverse)
    IN [i \in 1..Len(d) |-> d[order[i]]]

\* for i, (k, v) in enumerate(items): temp[i] = v
Reindex(d) == [i \in 1..Len(d) |-> [key |-> IdxKey(i - 1), val |-> d[i].val]]

\* ------------------------------------------------------------------- state
VARIABLES
    phase,          \* "new": no well yet; "built"; "rejected": __init__ raised
    top, bottom,    \* String.top, String.bottom
    max_md_depth, max_tvd_depth, tol, frac_gradient,
    method,         \* "top_down" or "bottom_up"
    complete,       \* String.complete
    sections,       \* self.sections
    op,             \* the last call: "none", "init", "add", "calc"
    raised,         \* what the last call raised: "none" or the exception type
    missing_params, \* the list in the last ValueError of addSection
    solo_calls,     \* positional indices calculateSoloMapsBurstLoadDF was
                    \* called on during the last calculation pass, in order
    args,           \* the arguments of a direct call of a module function
    result          \* the function called directly and what it returned

vars == <<phase, top, bottom, max_md_depth, max_tvd_depth, tol, frac_gradient,
          method, complete, sections, op, raised, missing_params, solo_calls,
          args, result>>

wellParams == <<top, bottom, max_md_depth, max_tvd_depth, tol, frac_gradient, method>>

\* The state of a well, which a direct call of a module function never touches.
wellState == <<phase, wellParams, complete, sections, op, raised, missing_params,
               solo_calls>>

\* No module function has been called directly.
NoCall == [fn |-> "none"]

Init ==
    /\ phase = "new"
    /\ top = 0 /\ bottom = 0
    /\ max_md_depth = 0 /\ max_tvd_depth = 0 /\ tol = 0 /\ frac_gradient = 0
    /\ method = "bottom_up"
    /\ complete = FALSE
    /\ sections = <<>>
    /\ op = "none" /\ raised = "none"
    /\ missing_params = <<>>
    /\ solo_calls = <<>>
    /\ args = NoCall /\ result = NoCall

\* ------------------------------------------------------------ construction
\* Variant: the top of liner is not checked.
validate_initial_parameters_notol(md, tvd, t) ==
    IF md <= 0 THEN "ValueError"
    ELSE IF tvd <= 0 THEN "ValueError"
    ELSE "none"

\* The message-free outcome of _validate_initial_parameters.
validate_initial_parameters(md, tvd, t) ==
    IF md <= 0 THEN "ValueError"
    ELSE IF tvd <= 0 THEN "ValueError"
    ELSE IF t < 0 THEN "ValueError"
    ELSE "none"

\* WellBoreExpanded(name, top, bottom, max_md_depth, max_tvd_depth, tol,
\* frac_gradient, method=...).  String.__init__ stores top, bottom and method
\* and starts with no sections and complete = False.
WellInit(w) ==
    /\ phase = "new"
    /\ top' = w.top /\ bottom' = w.bottom /\ method' = w.method
    /\ sections' = <<>> /\ complete' = FALSE
    /\ max_md_depth' = w.max_md_depth
    /\ max_tvd_depth' = w.max_tvd_depth
    /\ tol' = w.tol
    /\ frac_gradient' = w.frac_gradient
    /\ raised' = validate_initial_parameters(w.max_md_depth, w.max_tvd_depth, w.tol)
    /\ phase' = IF raised' = "none" THEN "built" ELSE "rejected"
    /\ op' = "init"
    /\ UNCHANGED <<missing_params, solo_calls, args, result>>

\* ---------------------------------------------------------------- assembly
required_params ==
    << "id", "tvd", "od", "bottom", "casing_type", "weight", "grade",
       "connection", "hole_size", "washout",
       "int_gradient", "mud_weight", "backup_mud", "cement_cu_ft",
       "body_yield", "burst_strength",
       "wall_thickness", "csg_internal_diameter", "collapse_pressure",
       "tension_strength" >>

\* Variant: only the first missing field is reported.
MissingOf_first(kwargs) ==
    LET all == SelectSeq(required_params, LAMBDA p : p \notin DOMAIN kwargs)
    IN IF all = <<>> THEN <<>> ELSE <<all[1]>>

MissingOf(kwargs) == SelectSeq(required_params, LAMBDA p : p \notin DOMAIN kwargs)

TopKey(sec) == sec.top
BottomKey(sec) == DictGet(sec, "md_bottom", sec.bottom)

\* Variant: the flag is recomputed on every call.
add_section_top_down_new_reset(kwargs) ==
    LET n == Len(sections) IN
    IF n > 0 /\ ~HasKey(sections, IdxKey(n - 1))
    THEN [raised |-> "KeyError", sections |-> sections, complete |-> complete]
    ELSE
      LET top0 == IF n = 0 THEN top ELSE GetItem(sections, IdxKey(n - 1)).bottom
          staged == SetItem(sections, IdxKey(n), Update([top |-> top0], kwargs))
          temp == Reindex(SortItems(staged, [i \in 1..Len(staged) |-> TopKey(staged[i].val)], FALSE))
      IN [raised |-> "none", sections |-> temp,
          complete |-> (temp[Len(temp)].val.bottom = bottom)]

\* Variant: every section starts at the well top.
add_section_top_down_new_welltop(kwargs) ==
    LET n == Len(sections) IN
    IF n > 0 /\ ~HasKey(sections, IdxKey(n - 1))
    THEN [raised |-> "KeyError", sections |-> sections, complete |-> complete]
    ELSE
      LET staged == SetItem(sections, IdxKey(n), Update([top |-> top], kwargs))
          temp == Reindex(SortItems(staged, [i \in 1..Len(staged) |-> TopKey(staged[i].val)], FALSE))
      IN [raised |-> "none", sections |-> temp,
          complete |-> IF temp[Len(temp)].val.bottom = bottom THEN TRUE ELSE complete]

\* Variant: the record is written over the last staged section.
add_section_top_down_new_overwrite(kwargs) ==
    LET n == Len(sections) IN
    IF n > 0 /\ ~HasKey(sections, IdxKey(n - 1))
    THEN [raised |-> "KeyError", sections |-> sections, complete |-> complete]
    ELSE
      LET top0 == IF n = 0 THEN top ELSE GetItem(sections, IdxKey(n - 1)).bottom
          staged == SetItem(sections, IdxKey(Max2(n - 1, 0)), Update([top |-> top0], kwargs))
          temp == Reindex(SortItems(staged, [i \in 1..Len(staged) |-> TopKey(staged[i].val)], FALSE))
      IN [raised |-> "none", sections |-> temp,
          complete |-> IF temp[Len(temp)].val.bottom = bottom THEN TRUE ELSE complete]

\* Variant: the sections are sorted by descending top.
add_section_top_down_new_reverse(kwargs) ==
    LET n == Len(sections) IN
    IF n > 0 /\ ~HasKey(sections, IdxKey(n - 1))
    THEN [raised |-> "KeyError", sections |-> sections, complete |-> complete]
    ELSE
      LET top0 == IF n = 0 THEN top ELSE GetItem(sections, IdxKey(n - 1)).bottom
          staged == SetItem(sections, IdxKey(n), Update([top |-> top0], kwargs))
          temp == Reindex(SortItems(staged, [i \in 1..Len(staged) |-> TopKey(staged[i].val)], TRUE))
      IN [raised |-> "none", sections |-> temp,
          complete |-> IF temp[Len(temp)].val.bottom = bottom THEN TRUE ELSE complete]

\* Variant: a missing previous section is read as the well top.
add_section_top_down_new_lenient(kwargs) ==
    LET n == Len(sections)
        top0 == IF n = 0 \/ ~HasKey(sections, IdxKey(n - 1)) THEN top
                ELSE GetItem(sections, IdxKey(n - 1)).bottom
        staged == SetItem(sections, IdxKey(n), Update([top |-> top0], kwargs))
        temp == Reindex(SortItems(staged, [i \in 1..Len(staged) |-> TopKey(staged[i].val)], FALSE))
    IN [raised |-> "none", sections |-> temp,
        complete |-> IF temp[Len(temp)].val.bottom = bottom THEN TRUE ELSE complete]

\* The outcome of add_section_top_down_new: what it raises, and the sections
\* and the flag it leaves.
add_section_top_down_new(kwargs) ==
    LET n == Len(sections) IN
    IF n > 0 /\ ~HasKey(sections, IdxKey(n - 1))
    THEN [raised |-> "KeyError", sections |-> sections, complete |-> complete]
    ELSE
      LET top0 == IF n = 0 THEN top ELSE GetItem(sections, IdxKey(n - 1)).bottom
          staged == SetItem(sections, IdxKey(n), Update([top |-> top0], kwargs))
          temp == Reindex(SortItems(staged, [i \in 1..Len(staged) |-> TopKey(staged[i].val)], FALSE))
      IN [raised |-> "none",
          sections |-> temp,
          complete |-> IF temp[Len(temp)].val.bottom = bottom THEN TRUE ELSE complete]

\* Variant: the bottom-up flag is recomputed on every call.
add_section_bottom_up_new_reset(kwargs) ==
    LET n == Len(sections) IN
    IF n > 0 /\ ~HasKey(sections, IdxKey(0))
    THEN [raised |-> "KeyError", sections |-> sections, complete |-> complete]
    ELSE
      LET first == GetItem(sections, IdxKey(0))
          bottom0 == IF n = 0 THEN bottom ELSE DictGet(first, "md_top", first.top)
          top0 == IF "length" \in DOMAIN kwargs
                  THEN Max2(bottom0 - kwargs.length, top)
                  ELSE IF "top" \in DOMAIN kwargs THEN kwargs.top
                  ELSE top
          staged == SetItem(sections, IdxKey(n),
                            Update([top |-> top0, bottom |-> bottom0], kwargs))
          temp == Reindex(SortItems(staged, [i \in 1..Len(staged) |-> BottomKey(staged[i].val)], TRUE))
      IN [raised |-> "none",
          sections |-> temp,
          complete |-> (temp[1].val.top = top)]

\* Variant: the sections are sorted by ascending bottom.
add_section_bottom_up_new_ascending(kwargs) ==
    LET n == Len(sections) IN
    IF n > 0 /\ ~HasKey(sections, IdxKey(0))
    THEN [raised |-> "KeyError", sections |-> sections, complete |-> complete]
    ELSE
      LET first == GetItem(sections, IdxKey(0))
          bottom0 == IF n = 0 THEN bottom ELSE DictGet(first, "md_top", first.top)
          top0 == IF "length" \in DOMAIN kwargs
                  THEN Max2(bottom0 - kwargs.length, top)
                  ELSE IF "top" \in DOMAIN kwargs THEN kwargs.top
                  ELSE top
          staged == SetItem(sections, IdxKey(n),
                            Update([top |-> top0, bottom |-> bottom0], kwargs))
          temp == Reindex(SortItems(staged, [i \in 1..Len(staged) |-> BottomKey(staged[i].val)], FALSE))
      IN [raised |-> "none",
          sections |-> temp,
          complete |-> IF temp[1].val.top = top THEN TRUE ELSE complete]

add_section_bottom_up_new(kwargs) ==
    LET n == Len(sections) IN
    IF n > 0 /\ ~HasKey(sections, IdxKey(0))
    THEN [raised |-> "KeyError", sections |-> sections, complete |-> complete]
    ELSE
      LET first == GetItem(sections, IdxKey(0))
          bottom0 == IF n = 0 THEN bottom ELSE DictGet(first, "md_top", first.top)
          top0 == IF "length" \in DOMAIN kwargs
                  THEN Max2(bottom0 - kwargs.length, top)
                  ELSE IF "top" \in DOMAIN kwargs THEN kwargs.top
                  ELSE top
          staged == SetItem(sections, IdxKey(n),
                            Update([top |-> top0, bottom |-> bottom0], kwargs))
          temp == Reindex(SortItems(staged, [i \in 1..Len(staged) |-> BottomKey(staged[i].val)], TRUE))
      IN [raised |-> "none",
          sections |-> temp,
          complete |-> IF temp[1].val.top = top THEN TRUE ELSE complete]

add_section_with_properties(kwargs) ==
    /\ phase = "built"
    /\ op' = "add"
    /\ UNCHANGED <<phase, wellParams, solo_calls, args, result>>
    /\ missing_params' = MissingOf(kwargs)
    /\ IF missing_params' # <<>>
       THEN /\ raised' = "ValueError"
            /\ UNCHANGED <<sections, complete>>
       ELSE LET out == IF method = "top_down"
                       THEN add_section_top_down_new(kwargs)
                       ELSE add_section_bottom_up_new(kwargs)
            IN /\ raised' = out.raised
               /\ sections' = out.sections
               /\ complete' = out.complete

\* ------------------------------------------------- per-section calculator
\* A design factor: the ratio strength / load (num / den), or float('inf').
Ratio(strength, load) == [inf |-> FALSE, num |-> strength, den |-> load]
Infinity == [inf |-> TRUE, num |-> 0, den |-> 0]

\* self.frac_gradient * self.tvd, in 1/Scale psi.
calculate_frac_init_pressure(casing, univ) == univ.frac_gradient * casing.tvd * Scale

\* effective_hole_size ** 2 - csg_size ** 2, in 1/Scale4 square inches.
AnnularDiff(casing) ==
    (casing.hole_size * (100 + casing.washout)) * (casing.hole_size * (100 + casing.washout))
      - (100 * casing.od) * (100 * casing.od)

\* calculate_cement_height raises ZeroDivisionError when the annular volume
\* per foot is zero.
CementHeightRaises(casing) == casing.od > 0 /\ AnnularDiff(casing) = 0

\* Cement column height in hundredths of a foot.
calculate_cement_height(casing) ==
    IF casing.od > 0
    THEN TruncDiv(casing.cement_cu_ft * AnnularConv * Scale4, AnnularDiff(casing))
    ELSE 0

\* Variant: the top of cement is not kept from going negative.
calculate_toc_unclamped(casing) ==
    casing.bottom * 100 - calculate_cement_height(casing)

\* Top of cement in hundredths of a foot.
calculate_toc(casing) ==
    LET output == casing.bottom * 100 - calculate_cement_height(casing)
    IN IF output < 0 THEN 0 ELSE output

\* MASP in 1/Scale psi.
calculate_masp(casing) ==
    LET mud_hydrostatic_pressure == Conv * casing.tvd * casing.mud_weight
        internal_pressure == casing.int_gradient * casing.tvd * Scale
        pore_pressure == PoreGradient * casing.tvd * (Scale \div 1000)
        masp_from_pore == pore_pressure - internal_pressure
        masp_from_mud == mud_hydrostatic_pressure - internal_pressure
    IN Max2(Max2(masp_from_pore, masp_from_mud), 0)

\* Collapse load in 1/Scale psi.
calculate_collapse_load(casing) ==
    casing.bottom * casing.mud_weight * Conv052 * (Scale \div 1000)

calculate_collapse_df(collapse_strength, collapse_load) ==
    IF collapse_load # 0 THEN Ratio(collapse_strength, collapse_load) ELSE Infinity

\* Neutral point in 1/Scale4 feet.
calculate_neutral_point(casing) ==
    TruncDiv(casing.tvd * (BuoyDensity - 10 * casing.mud_weight) * Scale4, BuoyDensity)

\* total_weight of calculate_tension_air and result3 of
\* calculate_tension_buoyed, in pounds.
WeightTerm(casing, univ) ==
    IF casing.bottom = univ.max_md_depth
    THEN casing.weight * Abs(casing.bottom - univ.tol)
    ELSE casing.weight * casing.bottom

\* Tension in air in pounds (thousandths of a kip).
calculate_tension_air(casing, univ) == WeightTerm(casing, univ)

\* Variant: the weight term of the buoyed tension ignores the top of liner.
calculate_tension_buoyed_notol(casing, univ) ==
    LET result1 == PiOver4 * (casing.od * casing.od
                     - casing.csg_internal_diameter * casing.csg_internal_diameter)
        result2 == IF casing.bottom = univ.max_md_depth
                   THEN TruncDiv(Conv * casing.mud_weight
                                   * Abs(casing.tvd - univ.max_tvd_depth), Scale4)
                   ELSE TruncDiv(Conv * casing.mud_weight * casing.tvd, Scale4)
        result3 == casing.weight * casing.bottom
    IN result3 * Scale - result2 * result1

\* Buoyed tension in 1/Scale pounds.  The product result2 * result1 is
\* taken with each factor rounded to 1/Scale4.
calculate_tension_buoyed(casing, univ) ==
    LET result1 == PiOver4 * (casing.od * casing.od
                     - casing.csg_internal_diameter * casing.csg_internal_diameter)
        result2 == IF casing.bottom = univ.max_md_depth
                   THEN TruncDiv(Conv * casing.mud_weight
                                   * Abs(casing.tvd - univ.max_tvd_depth), Scale4)
                   ELSE TruncDiv(Conv * casing.mud_weight * casing.tvd, Scale4)
        result3 == IF casing.bottom = univ.max_md_depth
                   THEN casing.weight * Abs(casing.bottom - univ.tol)
                   ELSE casing.weight * casing.bottom
    IN result3 * Scale - result2 * result1

calculate_tension_df(tension_strength, tension_buoyed) ==
    IF tension_buoyed = 0 THEN Infinity ELSE Ratio(tension_strength, tension_buoyed)

\* CasingDataCalc(casing, univ_params).get_results(), when nothing raises.
calculateData(casing, univ) ==
    LET collapse_load == calculate_collapse_load(casing)
        tension_buoyed == calculate_tension_buoyed(casing, univ)
    IN [cement_cu_ft |-> casing.cement_cu_ft,
        cement_height |-> calculate_cement_height(casing),
        toc |-> calculate_toc(casing),
        masp |-> calculate_masp(casing),
        collapse_strength |-> casing.collapse_pressure,
        collapse_load |-> collapse_load,
        collapse_df |-> calculate_collapse_df(casing.collapse_pressure, collapse_load),
        burst_strength |-> casing.burst_strength,
        neutral_point |-> calculate_neutral_point(casing),
        tension_strength |-> casing.tension_strength,
        tension_df |-> calculate_tension_df(casing.tension_strength, tension_buoyed),
        tension_air |-> calculate_tension_air(casing, univ),
        tension_buoyed |-> tension_buoyed,
        frac_init_pressure |-> calculate_frac_init_pressure(casing, univ)]

\* ------------------------------------------------ inter-section analysis
\* Variant: the gradient is read from the upper section.
calculate_maps_upper(sec1, sec2) ==
    LET next_bhp == sec2.mud_weight * sec2.tvd * Conv
    IN next_bhp - (sec2.tvd - sec1.tvd) * sec1.int_gradient * Scale

\* All pressures in 1/Scale psi.
calculate_maps(sec1, sec2) ==
    LET next_bhp == sec2.mud_weight * sec2.tvd * Conv
    IN next_bhp - (sec2.tvd - sec1.tvd) * sec2.int_gradient * Scale

\* x * 0.05194806 in 1/10000 psi for x in tenths of ppg-feet; the product is
\* taken digit group by digit group.
ConvField(x) ==
    x * (Conv \div 100000) + (x * ((Conv \div 1000) % 100)) \div 100
      + (x * (Conv % 1000)) \div 100000

\* calculate_maps at field scale: depths in feet, mud weights in tenths of
\* ppg, gradients in tenths of psi/ft, the result in 1/10000 psi.
calculate_maps_psi(sec1, sec2) ==
    LET next_bhp == ConvField(sec2.mud_weight * sec2.tvd)
    IN next_bhp - (sec2.tvd - sec1.tvd) * sec2.int_gradient * 1000

\* Variant: the depth differential is taken between the two sections.
calculate_burst_load_diff(sec1, sec2, maps) ==
    LET part1 == Conv * (sec1.mud_weight - sec1.backup_mud) * sec1.tvd
        minPart1 == sec1.frac_init_pressure
                      - (sec2.tvd - sec1.tvd) * sec2.int_gradient * Scale
                      - Conv * sec1.backup_mud * sec1.tvd
        minPart2 == maps - sec1.int_gradient * (sec2.tvd - sec1.tvd) * Scale
                      - Conv * sec1.backup_mud * sec1.tvd
    IN Max2(part1, Min2(minPart1, minPart2))

calculate_burst_load(sec1, sec2, maps) ==
    LET part1 == Conv * (sec1.mud_weight - sec1.backup_mud) * sec1.tvd
        minPart1 == sec1.frac_init_pressure
                      - (sec1.tvd - sec1.tvd) * sec2.int_gradient * Scale
                      - Conv * sec1.backup_mud * sec1.tvd
        minPart2 == maps - sec1.int_gradient * (sec1.tvd - sec1.tvd) * Scale
                      - Conv * sec1.backup_mud * sec1.tvd
    IN Max2(part1, Min2(minPart1, minPart2))

\* Variant: the sentinel only at a load of exactly zero.
BurstDF_zero(burst_strength, burst_load) ==
    IF burst_load # 0 THEN Ratio(burst_strength, burst_load) ELSE Infinity

\* burst_strength / burst_load if burst_load > 0 else float('inf')
BurstDF(burst_strength, burst_load) ==
    IF burst_load > 0 THEN Ratio(burst_strength, burst_load) ELSE Infinity

\* Variant: the solo maps is taken against the surface.
calculateSoloMapsBurstLoadDF_surface(section) ==
    LET maps == section.mud_weight * section.tvd * Conv
                  - section.tvd * section.int_gradient * Scale
        burst_load ==
            Max2(Conv * (section.mud_weight - section.backup_mud) * section.tvd,
                 Min2(section.frac_init_pressure - Conv * section.backup_mud * section.tvd,
                      maps - section.int_gradient * (section.tvd - section.tvd) * Scale
                           - Conv * section.backup_mud * section.tvd))
        burst_df == BurstDF(section.burst_strength, burst_load)
    IN Update(section, [maps |-> maps, burst_load |-> burst_load, burst_df |-> burst_df])

\* Variant: the maps ceiling is taken without the backup mud column.
calculateSoloMapsBurstLoadDF_nobackup(section) ==
    LET maps == section.mud_weight * section.tvd * Conv
        burst_load ==
            Max2(Conv * (section.mud_weight - section.backup_mud) * section.tvd,
                 Min2(section.frac_init_pressure - Conv * section.backup_mud * section.tvd,
                      maps - section.int_gradient * (section.tvd - section.tvd) * Scale))
        burst_df == BurstDF(section.burst_strength, burst_load)
    IN Update(section, [maps |-> maps, burst_load |-> burst_load, burst_df |-> burst_df])

\* Variant: the solo analysis leaves out the design factor.
calculateSoloMapsBurstLoadDF_nodf(section) ==
    LET maps == section.mud_weight * section.tvd * Conv
        burst_load ==
            Max2(Conv * (section.mud_weight - section.backup_mud) * section.tvd,
                 Min2(section.frac_init_pressure - Conv * section.backup_mud * section.tvd,
                      maps - section.int_gradient * (section.tvd - section.tvd) * Scale
                           - Conv * section.backup_mud * section.tvd))
    IN Update(section, [maps |-> maps, burst_load |-> burst_load])

calculateSoloMapsBurstLoadDF(section) ==
    LET maps == section.mud_weight * section.tvd * Conv
        burst_load ==
            Max2(Conv * (section.mud_weight - section.backup_mud) * section.tvd,
                 Min2(section.frac_init_pressure - Conv * section.backup_mud * section.tvd,
                      maps - section.int_gradient * (section.tvd - section.tvd) * Scale
                           - Conv * section.backup_mud * section.tvd))
        burst_df == BurstDF(section.burst_strength, burst_load)
    IN Update(section, [maps |-> maps, burst_load |-> burst_load, burst_df |-> burst_df])

\* calculateSoloMapsBurstLoadDF at field scale: depths in feet, mud weights
\* in tenths of ppg, gradients in tenths of psi/ft, frac_init_pressure and
\* the results in 1/10000 psi.
calculateSoloMapsBurstLoadDF_psi(section) ==
    LET maps == ConvField(section.mud_weight * section.tvd)
        burst_load ==
            Max2(ConvField((section.mud_weight - section.backup_mud) * section.tvd),
                 Min2(section.frac_init_pressure
                        - ConvField(section.backup_mud * section.tvd),
                      maps - section.int_gradient * (section.tvd - section.tvd) * 1000
                           - ConvField(section.backup_mud * section.tvd)))
        burst_df == BurstDF(section.burst_strength, burst_load)
    IN Update(section, [maps |-> maps, burst_load |-> burst_load, burst_df |-> burst_df])

\* ------------------------------------------------------- calculation pass
univ_params ==
    [max_md_depth |-> max_md_depth, max_tvd_depth |-> max_tvd_depth,
     tol |-> tol, frac_gradient |-> frac_gradient]

\* Variant: the first loop looks ahead and raises before it updates anything.
RECURSIVE CalcLoop_atomic(_, _, _)
CalcLoop_atomic(d, i, n) ==
    IF i >= n THEN [raised |-> "none", sections |-> d]
    ELSE IF ~HasKey(d, IdxKey(i)) THEN [raised |-> "KeyError", sections |-> d]
    ELSE IF \E j \in i..(n - 1) :
                 IF HasKey(d, IdxKey(j)) THEN CementHeightRaises(GetItem(d, IdxKey(j)))
                 ELSE FALSE
         THEN [raised |-> "ZeroDivisionError", sections |-> d]
    ELSE LET sec == GetItem(d, IdxKey(i))
         IN CalcLoop_atomic(SetItem(d, IdxKey(i), Update(sec, calculateData(sec, univ_params))),
                            i + 1, n)

\* The first loop of calcParametersContained from index i on: each section
\* is updated with its calculator record; a lookup or a division that raises
\* ends the pass with the sections updated so far.
RECURSIVE CalcLoop(_, _, _)
CalcLoop(d, i, n) ==
    IF i >= n THEN [raised |-> "none", sections |-> d]
    ELSE IF ~HasKey(d, IdxKey(i)) THEN [raised |-> "KeyError", sections |-> d]
    ELSE IF CementHeightRaises(GetItem(d, IdxKey(i)))
         THEN [raised |-> "ZeroDivisionError", sections |-> d]
    ELSE LET sec == GetItem(d, IdxKey(i))
         IN CalcLoop(SetItem(d, IdxKey(i), Update(sec, calculateData(sec, univ_params))),
                     i + 1, n)

\* Variant: every section is analysed against itself.
RECURSIVE PairLoop_self(_, _, _)
PairLoop_self(d, i, n) ==
    IF i >= n - 1 THEN d
    ELSE LET sec1 == GetItem(d, IdxKey(i))
             maps == calculate_maps(sec1, sec1)
             burst_load == calculate_burst_load(sec1, sec1, maps)
             burst_df == BurstDF(sec1.burst_strength, burst_load)
         IN PairLoop_self(SetItem(d, IdxKey(i),
                                  Update(sec1, [maps |-> maps, burst_load |-> burst_load,
                                                burst_df |-> burst_df])),
                          i + 1, n)

\* The pair loop from index i on: section i against section i + 1.
RECURSIVE PairLoop(_, _, _)
PairLoop(d, i, n) ==
    IF i >= n - 1 THEN d
    ELSE LET sec1 == GetItem(d, IdxKey(i))
             sec2 == GetItem(d, IdxKey(i + 1))
             maps == calculate_maps(sec1, sec2)
             burst_load == calculate_burst_load(sec1, sec2, maps)
             burst_df == BurstDF(sec1.burst_strength, burst_load)
         IN PairLoop(SetItem(d, IdxKey(i),
                             Update(sec1, [maps |-> maps, burst_load |-> burst_load,
                                           burst_df |-> burst_df])),
                     i + 1, n)

\* The index the solo calculation is applied to: counter after the pair loop,
\* or 0 on the single-section branch.
SoloIndex(secs_num) == IF secs_num > 1 THEN secs_num - 1 ELSE 0

\* create_variables: sections[variables[i]] = sections.pop(i), i = 0..n-1.
RECURSIVE create_variables(_, _, _)
create_variables(d, variables, i) ==
    IF i > Len(variables) THEN d
    ELSE create_variables(
             SetItem(PopItem(d, IdxKey(i - 1)), LabelKey(variables[i]),
                     GetItem(d, IdxKey(i - 1))),
             variables, i + 1)

\* Variant: a well without sections yields an empty table.
calcPass_empty(d) ==
    LET n == Len(d)
        first == CalcLoop(d, 0, n)
    IN IF n = 0
       THEN [raised |-> "none", sections |-> d, solo_calls |-> <<>>]
       ELSE IF first.raised # "none"
       THEN [raised |-> first.raised, sections |-> first.sections, solo_calls |-> <<>>]
       ELSE IF ~HasKey(first.sections, IdxKey(SoloIndex(n)))
       THEN [raised |-> "KeyError", sections |-> first.sections, solo_calls |-> <<>>]
       ELSE
         LET variables == [i \in 1..n |-> GetItem(first.sections, IdxKey(i - 1)).casing_type]
             paired == IF n > 1 THEN PairLoop(first.sections, 0, n) ELSE first.sections
             k == SoloIndex(n)
             solo == SetItem(paired, IdxKey(k),
                             calculateSoloMapsBurstLoadDF(GetItem(paired, IdxKey(k))))
         IN [raised |-> "none",
             sections |-> create_variables(solo, variables, 1),
             solo_calls |-> <<k>>]

\* The whole of calcParametersContained on the sections d.
calcPass(d) ==
    LET n == Len(d)
        first == CalcLoop(d, 0, n)
    IN IF first.raised # "none"
       THEN [raised |-> first.raised, sections |-> first.sections, solo_calls |-> <<>>]
       ELSE IF ~HasKey(first.sections, IdxKey(SoloIndex(n)))
       THEN [raised |-> "KeyError", sections |-> first.sections, solo_calls |-> <<>>]
       ELSE
         LET variables == [i \in 1..n |-> GetItem(first.sections, IdxKey(i - 1)).casing_type]
             paired == IF n > 1 THEN PairLoop(first.sections, 0, n) ELSE first.sections
             k == SoloIndex(n)
             solo == SetItem(paired, IdxKey(k),
                             calculateSoloMapsBurstLoadDF(GetItem(paired, IdxKey(k))))
         IN [raised |-> "none",
             sections |-> create_variables(solo, variables, 1),
             solo_calls |-> <<k>>]

calcParametersContained ==
    /\ phase = "built"
    /\ op' = "calc"
    /\ LET out == calcPass(sections)
       IN /\ raised' = out.raised
          /\ sections' = out.sections
          /\ solo_calls' = out.solo_calls
    /\ UNCHANGED <<phase, wellParams, complete, missing_params, args, result>>

\* ------------------------------------------------------------------ inputs
\* A raw record with the twenty required fields.
BaseRaw ==
    [id |-> 0, tvd |-> 2, od |-> 2, bottom |-> 0, casing_type |-> "surface",
     weight |-> 1, grade |-> "J-55", connection |-> "LTC", hole_size |-> 3,
     washout |-> 0, int_gradient |-> 0, mud_weight |-> 1, backup_mud |-> 0,
     cement_cu_ft |-> 1, body_yield |-> 1, burst_strength |-> 1,
     wall_thickness |-> 1, csg_internal_diameter |-> 1,
     collapse_pressure |-> 1, tension_strength |-> 1]

Drop(rec, keys) == [k \in DOMAIN rec \ keys |-> rec[k]]

\* The optional positioning fields a record may carry besides the required
\* ones, each with the bottom it is offered at.
AtShoe == { [length |-> 1], [length |-> 2], [top |-> 1], [md_top |-> 1] }
AtOne == { [top |-> 1, length |-> 1], [md_bottom |-> 2] }

\* The depths offered as a record's bottom.
Depths == {0, 1, MaxDepth - 1, MaxDepth}

\* Records offered to addSection by the assembly specification.
AsmRecords ==
    { Update(BaseRaw, [bottom |-> b]) : b \in Depths }
      \cup { Update(Update(BaseRaw, [bottom |-> MaxDepth - 1]), o) : o \in AtShoe }
      \cup { Update(Update(BaseRaw, [bottom |-> 1]), o) : o \in AtOne }
      \cup { Drop(BaseRaw, {"tvd"}) }

\* Wells offered to the constructor by the assembly specification.
RejectedWells ==
    { w \in { [top |-> 0, bottom |-> MaxDepth, max_md_depth |-> md, max_tvd_depth |-> tvd,
               tol |-> t, frac_gradient |-> 1, method |-> "top_down"] :
                 md \in {0 - 1, 0, MaxDepth}, tvd \in {0 - 1, 0, MaxDepth},
                 t \in {0 - 1, 0} } :
        w.max_md_depth <= 0 \/ w.max_tvd_depth <= 0 \/ w.tol < 0 }

AsmWells ==
    { [top |-> t, bottom |-> MaxDepth - 1, max_md_depth |-> MaxDepth - 1,
       max_tvd_depth |-> MaxDepth, tol |-> 0, frac_gradient |-> 1, method |-> m] :
        t \in 0..1, m \in {"top_down", "bottom_up"} }
      \cup RejectedWells

\* addSection is offered while the well has room, and on a table that is
\* already keyed by label.
Room == Len(sections) < MaxSections \/ ~HasKey(sections, IdxKey(0))

Construct == \E w \in AsmWells : WellInit(w)
AddSection == Room /\ \E kwargs \in AsmRecords : add_section_with_properties(kwargs)
Calculate == calcParametersContained

Next == Construct \/ AddSection \/ Calculate

Spec == Init /\ [][Next]_vars

\* Records that leave the top to the assembler.
DerivedTopRecords == { r \in AsmRecords : "top" \notin DOMAIN r }
AddSectionDerivedTop ==
    Room /\ \E kwargs \in DerivedTopRecords : add_section_with_properties(kwargs)
NextDerivedTop == Construct \/ AddSectionDerivedTop \/ Calculate
SpecDerivedTop == Init /\ [][NextDerivedTop]_vars

\* Physical profiles offered by the calculation specification: an ordinary
\* string, one with no load at all, one whose backup mud outweighs its mud,
\* one whose hole is exactly as wide as the pipe, and one without pipe.
Profiles ==
    { Update(BaseRaw, [casing_type |-> "surface", int_gradient |-> 1]),
      Update(BaseRaw, [casing_type |-> "intermediate", mud_weight |-> 0, weight |-> 0]),
      Update(BaseRaw, [casing_type |-> "production", mud_weight |-> 3,
                       backup_mud |-> 4, tvd |-> 3]),
      Update(BaseRaw, [casing_type |-> "liner", hole_size |-> 2]),
      Update(BaseRaw, [casing_type |-> "surface", od |-> 0, tvd |-> 1]) }

\* Records that lack required fields.
Incomplete ==
    { Drop(BaseRaw, {"id"}),
      Drop(BaseRaw, {"id", "tvd", "bottom", "tension_strength"}) }

CalcRecords ==
    { Update(r, [bottom |-> b]) : r \in Profiles, b \in {1, MaxDepth - 1} }
      \cup Incomplete

CalcWells ==
    { [top |-> 0, bottom |-> MaxDepth - 1, max_md_depth |-> MaxDepth - 1,
       max_tvd_depth |-> MaxDepth, tol |-> w[1], frac_gradient |-> w[2], method |-> m] :
        w \in {<<0, 1>>, <<1, 0>>}, m \in {"top_down", "bottom_up"} }

ConstructCalc == \E w \in CalcWells : WellInit(w)
AddSectionCalc == Room /\ \E kwargs \in CalcRecords : add_section_with_properties(kwargs)
NextCalc == ConstructCalc \/ AddSectionCalc \/ Calculate
SpecCalc == Init /\ [][NextCalc]_vars

\* Sections offered as the upper (or only) section of a direct call.
UpperSections ==
    { [tvd |-> t, mud_weight |-> m, backup_mud |-> b, int_gradient |-> g,
       frac_init_pressure |-> f * Scale, burst_strength |-> 1] :
        t \in {1, MaxDepth - 1}, m \in {0, 1, 3}, b \in {0, 4}, g \in {0, 1}, f \in {0, 1} }

\* Sections offered as the lower section of a direct call.
LowerSections ==
    { [tvd |-> t, mud_weight |-> m, int_gradient |-> g] :
        t \in {1, MaxDepth}, m \in {1, 3}, g \in {0, 1} }

\* Values offered as the maps argument, in 1/Scale psi.
MapsValues == { 0 - Scale, 0, Conv, 2 * Scale }

DirectCalls ==
    { [fn |-> "args", sec1 |-> u, sec2 |-> l, maps |-> v] :
        u \in UpperSections, l \in LowerSections, v \in MapsValues }

InitBurst ==
    /\ phase = "new"
    /\ top = 0 /\ bottom = 0
    /\ max_md_depth = 0 /\ max_tvd_depth = 0 /\ tol = 0 /\ frac_gradient = 0
    /\ method = "bottom_up"
    /\ complete = FALSE
    /\ sections = <<>>
    /\ op = "none" /\ raised = "none"
    /\ missing_params = <<>>
    /\ solo_calls = <<>>
    /\ args \in DirectCalls
    /\ result = NoCall

\* maps = calculate_maps(sec1, sec2)
CallMaps ==
    /\ args.fn = "args"
    /\ result' = [fn |-> "calculate_maps", value |-> calculate_maps(args.sec1, args.sec2)]
    /\ UNCHANGED <<wellState, args>>

\* burst_load = calculate_burst_load(sec1, sec2, maps)
CallBurstLoad ==
    /\ args.fn = "args"
    /\ result' = [fn |-> "calculate_burst_load",
                  value |-> calculate_burst_load(args.sec1, args.sec2, args.maps)]
    /\ UNCHANGED <<wellState, args>>

\* calculateSoloMapsBurstLoadDF(section) updates the dictionary it is given
\* and returns that same dictionary.
CallSolo ==
    /\ args.fn = "args"
    /\ LET out == calculateSoloMapsBurstLoadDF(args.sec1)
       IN /\ args' = [args EXCEPT !.sec1 = out]
          /\ result' = [fn |-> "calculateSoloMapsBurstLoadDF", value |-> out]
    /\ UNCHANGED wellState

NextBurst == CallMaps \/ CallBurstLoad \/ CallSolo
SpecBurst == InitBurst /\ [][NextBurst]_vars

\* Profiles whose cement column is shorter than the section, and whose hole
\* is narrower than the pipe.
CementProfiles ==
    { Update(BaseRaw, [casing_type |-> "production", hole_size |-> 30]),
      Update(BaseRaw, [casing_type |-> "liner", hole_size |-> 1]) }

\* Sections and well-wide parameters offered to a direct construction of the
\* per-section calculator; a section's bottom is not validated and may be
\* negative.
CalculatorCalls ==
    { [fn |-> "args", casing |-> Update([top |-> t], Update(r, [bottom |-> b])),
       univ |-> [max_md_depth |-> MaxDepth - 1, max_tvd_depth |-> MaxDepth,
                 tol |-> w[1], frac_gradient |-> w[2]]] :
        r \in Profiles \cup CementProfiles, t \in {0, 1},
        b \in {0 - 1, 1, MaxDepth - 1},
        w \in {<<0, 1>>, <<1, 0>>, <<1, 1>>} }

InitCalculator ==
    /\ phase = "new"
    /\ top = 0 /\ bottom = 0
    /\ max_md_depth = 0 /\ max_tvd_depth = 0 /\ tol = 0 /\ frac_gradient = 0
    /\ method = "bottom_up"
    /\ complete = FALSE
    /\ sections = <<>>
    /\ op = "none" /\ raised = "none"
    /\ missing_params = <<>>
    /\ solo_calls = <<>>
    /\ args \in CalculatorCalls
    /\ result = NoCall

\* How many runs of the calculator a result records.
Runs(r) == IF r.fn = "none" THEN 0 ELSE IF r.previous.fn = "none" THEN 1 ELSE 2

\* Variant: the record is merged into the section it was computed from.
CallCalculator_merge ==
    /\ args.fn = "args"
    /\ Runs(result) < 2
    /\ ~CementHeightRaises(args.casing)
    /\ result' = [fn |-> "CasingDataCalc", raised |-> "none",
                  value |-> calculateData(args.casing, args.univ), previous |-> result]
    /\ args' = [args EXCEPT !.casing = Update(args.casing, result'.value)]
    /\ UNCHANGED wellState

\* CasingDataCalc(casing, univ_params).get_results(): the constructor copies
\* the fields it reads into attributes of the new object and computes from
\* those; it either returns the record or raises ZeroDivisionError.  It is
\* run at most twice on the same arguments.
CallCalculator ==
    /\ args.fn = "args"
    /\ Runs(result) < 2
    /\ result' = IF CementHeightRaises(args.casing)
                 THEN [fn |-> "CasingDataCalc", raised |-> "ZeroDivisionError",
                       value |-> NoCall, previous |-> result]
                 ELSE [fn |-> "CasingDataCalc", raised |-> "none",
                       value |-> calculateData(args.casing, args.univ),
                       previous |-> result]
    /\ UNCHANGED <<wellState, args>>

NextCalculator == CallCalculator
SpecCalculator == InitCalculator /\ [][NextCalculator]_vars

\* ------------------------------------------------------ assembly properties
NumSections == Len(sections)
\* The table is still keyed 0..n-1 (no calculation pass has re-keyed it).
Positional == \A i \in 1..NumSections : sections[i].key = IdxKey(i - 1)
Sec(i) == sections[i].val
LastBottom(d) == d[Len(d)].val.bottom

\* Some order of the staged sections is a chain from well.top to well.bottom.
ChainSpans ==
    /\ NumSections > 0
    /\ \E p \in Permutations(1..NumSections) :
          /\ Sec(p[1]).top = top
          /\ Sec(p[NumSections]).bottom = bottom
          /\ \A i \in 1..(NumSections - 1) : Sec(p[i + 1]).top = Sec(p[i]).bottom

RECURSIVE SumSpans(_, _)
SumSpans(d, i) ==
    IF i > Len(d) THEN 0 ELSE (d[i].val.bottom - d[i].val.top) + SumSpans(d, i + 1)

MinTop == CHOOSE t \in { Sec(i).top : i \in 1..NumSections } :
              \A i \in 1..NumSections : t <= Sec(i).top

\* C1 (as claimed): in every state of a built well whose table is positional,
\* the flag is true iff the staged sections form a chain spanning the well.
C1_Claim == (phase = "built" /\ Positional) => (complete <=> ChainSpans)

\* C2 (as claimed): top-down, the flag is true iff the last section's bottom
\* equals well.bottom.
C2_Claim ==
    (phase = "built" /\ method = "top_down" /\ Positional /\ NumSections > 0)
        => (complete <=> LastBottom(sections) = bottom)

\* C2 (amended): a successful top-down addSection leaves the flag true iff it
\* was true before the call or the new last section's bottom equals
\* well.bottom; the flag is never reset.
C2_FlagStep ==
    [][(phase = "built" /\ method = "top_down" /\ op' = "add" /\ raised' = "none")
          => (complete' <=> (complete \/ LastBottom(sections') = bottom))]_vars

C2_Witness ==
    /\ method = "top_down" /\ op = "add" /\ raised = "none" /\ Positional
    /\ NumSections >= 2 /\ complete /\ LastBottom(sections) # bottom

\* C3 (as claimed): bottom-up, the flag is true iff the top of the shallowest
\* staged section equals well.top.
C3_Claim ==
    (phase = "built" /\ method = "bottom_up" /\ Positional /\ NumSections > 0)
        => (complete <=> MinTop = top)

\* C4 (as claimed): top-down, whenever the flag is true the spans of the
\* staged sections sum to well.bottom - well.top.
C4_Claim ==
    (phase = "built" /\ method = "top_down" /\ Positional /\ complete)
        => SumSpans(sections, 1) = bottom - top

\* C4 (amended): top-down with every top left to the assembler, the spans sum
\* to well.bottom - well.top in the state where the flag turns true.
C4_SumAtCompletion ==
    [][(phase = "built" /\ method = "top_down" /\ ~complete /\ complete')
          => SumSpans(sections', 1) = bottom - top]_vars

C4_Witness ==
    /\ method = "top_down" /\ op = "add" /\ raised = "none" /\ Positional
    /\ NumSections >= 2 /\ complete /\ SumSpans(sections, 1) = bottom - top
    /\ LastBottom(sections) = bottom

\* ---------------------------------------------------- validation properties
\* The twenty fields the specification requires of a raw record.
RequiredFields ==
    { "id", "tvd", "od", "bottom", "casing_type", "weight", "grade", "connection",
      "hole_size", "washout", "int_gradient", "mud_weight", "backup_mud",
      "cement_cu_ft", "body_yield", "burst_strength", "wall_thickness",
      "csg_internal_diameter", "collapse_pressure", "tension_strength" }

ListsExactly(seq, set) ==
    /\ { seq[i] : i \in 1..Len(seq) } = set
    /\ Len(seq) = Cardinality(set)

\* C5: a call of addSection with a record lacking required fields raises a
\* ValueError whose list holds exactly the missing required fields, and leaves
\* the sections and the flag as they were.
C5_MissingFields ==
    [][\A kwargs \in CalcRecords :
          (RequiredFields \ DOMAIN kwargs # {} /\ add_section_with_properties(kwargs))
            => /\ raised' = "ValueError"
               /\ ListsExactly(missing_params', RequiredFields \ DOMAIN kwargs)
               /\ sections' = sections
               /\ complete' = complete]_vars

C5_Witness ==
    /\ op = "add" /\ raised = "ValueError" /\ Len(missing_params) = 4
    /\ NumSections >= 1 /\ complete

\* C6: a well exists (is built) only with max_md_depth > 0, max_tvd_depth > 0
\* and tol >= 0; with any other values construction raises.
C6_WellBounds ==
    (phase # "new")
      => /\ (phase = "built") <=> (max_md_depth > 0 /\ max_tvd_depth > 0 /\ tol >= 0)
         /\ (phase = "rejected") <=> (raised = "ValueError" /\ op = "init")

C6_Witness == phase = "rejected" /\ max_md_depth > 0 /\ max_tvd_depth > 0 /\ tol < 0

\* --------------------------------------------------- calculation properties
\* The last call was a calculation pass that returned.
CalcDone == phase = "built" /\ op = "calc" /\ raised = "none"
Entries == { sections[i].val : i \in 1..NumSections }
Computed == { e \in Entries : "collapse_df" \in DOMAIN e }
Analysed == { e \in Entries : "burst_df" \in DOMAIN e }

\* strength / load when load > 0, the sentinel otherwise.
SentinelPolicy(df, strength, load) ==
    IF load > 0 THEN df = Ratio(strength, load) ELSE df = Infinity

\* C7 (as claimed): each of the three design factors is strength / load when
\* its load is positive and the positive-infinity sentinel when its load is
\* zero or negative.
C7_Claim ==
    /\ \A e \in Computed :
          /\ SentinelPolicy(e.collapse_df, e.collapse_strength, e.collapse_load)
          /\ SentinelPolicy(e.tension_df, e.tension_strength, e.tension_buoyed)
    /\ \A e \in Analysed : SentinelPolicy(e.burst_df, e.burst_strength, e.burst_load)

\* The sentinel exactly at load zero, the ratio otherwise.
SentinelAtZero(df, strength, load) ==
    IF load = 0 THEN df = Infinity ELSE df = Ratio(strength, load)

\* C8 (as claimed): after the pass each factor is the sentinel exactly when
\* its load is 0 and a finite ratio otherwise.
C8_Claim ==
    CalcDone =>
      \A e \in Entries :
         /\ SentinelAtZero(e.collapse_df, e.collapse_strength, e.collapse_load)
         /\ SentinelAtZero(e.tension_df, e.tension_strength, e.tension_buoyed)
         /\ SentinelAtZero(e.burst_df, e.burst_strength, e.burst_load)

\* C8 (amended): after the pass collapse_df and tension_df are the sentinel
\* exactly when their load is 0, burst_df is the sentinel exactly when
\* burst_load <= 0, and a factor that is not the sentinel is strength / load.
C8_SentinelLoads ==
    CalcDone =>
      \A e \in Entries :
         /\ SentinelAtZero(e.collapse_df, e.collapse_strength, e.collapse_load)
         /\ SentinelAtZero(e.tension_df, e.tension_strength, e.tension_buoyed)
         /\ SentinelPolicy(e.burst_df, e.burst_strength, e.burst_load)

C8_Witness ==
    /\ CalcDone
    /\ \E e \in Entries : e.burst_load < 0 /\ e.burst_df = Infinity
    /\ \E e \in Entries : e.collapse_load = 0 /\ e.collapse_df = Infinity
    /\ \E e \in Entries : e.tension_buoyed < 0 /\ ~e.tension_df.inf

\* The three keys the burst analysis writes.
BurstKeys(e) == [maps |-> e.maps, burst_load |-> e.burst_load, burst_df |-> e.burst_df]
\* No later section carries section i's label, so the table keeps section i.
Retained(i) == \A j \in (i + 1)..NumSections : Sec(j).casing_type # Sec(i).casing_type
\* Section i with the record the per-section calculator gives it.
WithData(i) == Update(Sec(i), calculateData(Sec(i), univ_params))

\* C9: a pass over n > 1 sections leaves on every section i < n - 1 the maps
\* of (i, i + 1), the burst load of (i, i + 1, maps) computed with the
\* frac_init_pressure of this pass, and the burst_df of that load; on the
\* last section it leaves the solo results.
C9_PairResults ==
    [][(phase = "built" /\ Positional /\ NumSections > 1
          /\ op' = "calc" /\ raised' = "none")
        => \A i \in 1..NumSections : Retained(i) =>
             LET e == GetItem(sections', LabelKey(Sec(i).casing_type))
             IN IF i < NumSections
                THEN LET maps == calculate_maps(Sec(i), Sec(i + 1))
                         load == calculate_burst_load(WithData(i), Sec(i + 1), maps)
                     IN BurstKeys(e) = [maps |-> maps, burst_load |-> load,
                                        burst_df |-> BurstDF(Sec(i).burst_strength, load)]
                ELSE BurstKeys(e) = BurstKeys(calculateSoloMapsBurstLoadDF(WithData(i)))]_vars

C9_Witness ==
    /\ CalcDone /\ NumSections = 3
    /\ \E i, j \in 1..NumSections :
          /\ i # j
          /\ sections[i].val.tvd # sections[j].val.tvd
          /\ sections[i].val.maps # BurstKeys(calculateSoloMapsBurstLoadDF(sections[i].val)).maps

\* Section j is the section immediately deeper than section i.
ImmediatelyDeeper(j, i) ==
    /\ Sec(j).bottom >= Sec(i).bottom
    /\ ~\E m \in 1..NumSections :
          Sec(i).bottom < Sec(m).bottom /\ Sec(m).bottom < Sec(j).bottom

\* C10 (as claimed): a pass applies solo mode to exactly one section, the
\* deepest, and analyses every other section against the section immediately
\* deeper than it.
C10_Claim ==
    [][(phase = "built" /\ Positional /\ NumSections > 0
          /\ op' = "calc" /\ raised' = "none")
        => /\ Len(solo_calls') = 1
           /\ LET k == solo_calls'[1] + 1
              IN /\ \A j \in 1..NumSections : Sec(j).bottom <= Sec(k).bottom
                 /\ \A i \in 1..NumSections \ {k} :
                       i + 1 <= NumSections /\ ImmediatelyDeeper(i + 1, i)]_vars

\* ------------------------------------------------------ re-keying properties
\* The table a pass over d holds just before create_variables re-keys it.
BeforeRekey(d) ==
    LET n == Len(d)
        first == CalcLoop(d, 0, n).sections
        paired == IF n > 1 THEN PairLoop(first, 0, n) ELSE first
        k == SoloIndex(n)
    IN SetItem(paired, IdxKey(k), calculateSoloMapsBurstLoadDF(GetItem(paired, IdxKey(k))))

\* C11 (as claimed): a pass over n sections, whatever their labels, leaves
\* exactly n entries, the i-th keyed by the label of section i and holding
\* the fields section i had at the end of the calculation.
C11_Claim ==
    [][(phase = "built" /\ Positional /\ NumSections > 0
          /\ op' = "calc" /\ raised' = "none")
        => LET pre == BeforeRekey(sections)
           IN /\ Len(sections') = NumSections
              /\ \A i \in 1..NumSections :
                    /\ i <= Len(sections')
                    /\ sections'[i].key = LabelKey(pre[i].val.casing_type)
                    /\ sections'[i].val = pre[i].val]_vars

\* The table is non-empty and keyed by label only.
Frozen == NumSections > 0 /\ \A i \in 1..NumSections : sections[i].key.idx < 0

\* C12: on a label-keyed table every addSection call and every calculation
\* pass raises and leaves the table, its order and the flag as they were.
C12_FrozenTable ==
    [][(phase = "built" /\ Frozen /\ op' \in {"add", "calc"})
          => /\ raised' # "none"
             /\ sections' = sections
             /\ complete' = complete]_vars

C12_Witness ==
    /\ Frozen /\ NumSections >= 2 /\ op = "calc" /\ raised = "KeyError"
    /\ \A i \in 1..NumSections : "burst_df" \in DOMAIN Sec(i)

\* ------------------------------------------------- derived-field properties
DerivedFields ==
    { "cement_height", "toc", "masp", "collapse_load", "collapse_df",
      "neutral_point", "tension_air", "tension_buoyed", "tension_df",
      "frac_init_pressure", "maps", "burst_load", "burst_df" }
NoDerived(d) == \A i \in 1..Len(d) : DOMAIN d[i].val \cap DerivedFields = {}
AllDerived(d) == \A i \in 1..Len(d) : DerivedFields \subseteq DOMAIN d[i].val

\* C13: with records of required raw fields only, a new well and every
\* addSection call before the first pass leave no derived result on any
\* section, and a pass that returns leaves all thirteen on every section.
C13_DerivedByPass ==
    [][/\ (op' = "init") => NoDerived(sections')
       /\ (op' = "add" /\ NoDerived(sections)) => NoDerived(sections')
       /\ (op' = "calc" /\ raised' = "none") => AllDerived(sections')]_vars

C13_Witness ==
    /\ CalcDone /\ NumSections = 3 /\ AllDerived(sections)
    /\ \E i \in 1..NumSections : Sec(i).burst_df = Infinity

\* ------------------------------------------------- burst-function properties
\* C14: calculate_maps(upper, lower) is lower.mud_weight * lower.tvd *
\* 0.05194806 - (lower.tvd - upper.tvd) * lower.int_gradient, it reads no
\* field of the upper section but tvd, and for upper.tvd 5000, lower mud
\* weight 15.0, tvd 10000 and gradient 0.1 it is within 0.1 of 7292.2 psi.
C14_Maps ==
    /\ (result.fn = "calculate_maps") =>
          LET upper == args.sec1
              lower == args.sec2
          IN /\ result.value = lower.mud_weight * lower.tvd * Conv
                                 - (lower.tvd - upper.tvd) * lower.int_gradient * Scale
             /\ \A u \in UpperSections :
                   u.tvd = upper.tvd => calculate_maps(u, lower) = result.value
    /\ Abs(calculate_maps_psi([tvd |-> 5000],
                              [mud_weight |-> 150, tvd |-> 10000, int_gradient |-> 1])
             - 72922000) <= 1000

C14_Witness ==
    /\ result.fn = "calculate_maps"
    /\ args.sec2.tvd > args.sec1.tvd /\ args.sec2.int_gradient > 0
    /\ args.sec1.int_gradient = 0
    /\ result.value < args.sec2.mud_weight * args.sec2.tvd * Conv

\* The three terms of the burst load of an upper section, in 1/Scale psi.
DiffMud(upper) == Conv * (upper.mud_weight - upper.backup_mud) * upper.tvd
FracCeiling(upper) == upper.frac_init_pressure - Conv * upper.backup_mud * upper.tvd
MapsCeiling(upper, maps) == maps - Conv * upper.backup_mud * upper.tvd
Gradients == {0, 1, 2}

\* C15: calculate_burst_load(upper, lower, maps) is max(D, min(F, M)); it is
\* the same for every int_gradient of either section and for every lower
\* section.
C15_BurstLoad ==
    (result.fn = "calculate_burst_load") =>
       LET upper == args.sec1
           lower == args.sec2
       IN /\ result.value = Max2(DiffMud(upper),
                                 Min2(FracCeiling(upper), MapsCeiling(upper, args.maps)))
          /\ \A g1, g2 \in Gradients :
                calculate_burst_load([upper EXCEPT !.int_gradient = g1],
                                     [lower EXCEPT !.int_gradient = g2], args.maps)
                  = result.value
          /\ \A l \in LowerSections :
                calculate_burst_load(upper, l, args.maps) = result.value

C15_Witness ==
    /\ result.fn = "calculate_burst_load"
    /\ args.sec1.int_gradient > 0 /\ args.sec2.int_gradient > 0
    /\ args.sec2.tvd > args.sec1.tvd
    /\ result.value = MapsCeiling(args.sec1, args.maps)
    /\ result.value < FracCeiling(args.sec1)
    /\ result.value > DiffMud(args.sec1)

\* The section of the worked solo example: mud weight 15.0, backup mud 8.6,
\* tvd 10000, frac_init_pressure 8000, gradient 0.1, burst strength 10000.
SoloExample ==
    calculateSoloMapsBurstLoadDF_psi(
        [mud_weight |-> 150, backup_mud |-> 86, tvd |-> 10000,
         frac_init_pressure |-> 80000000, int_gradient |-> 1, burst_strength |-> 10000])

\* C16: calculateSoloMapsBurstLoadDF(section) writes maps = mud_weight * tvd *
\* 0.05194806, burst_load = max(D, min(F, maps - 0.05194806 * backup_mud *
\* tvd)) and burst_df = burst_strength / burst_load if burst_load > 0 else
\* infinity into the section, leaves every other field as it was, and on the
\* worked example gives maps within 0.01 of 7792.21 and a finite burst_df.
C16_Solo ==
    /\ [][(result'.fn = "calculateSoloMapsBurstLoadDF") =>
            LET section == args.sec1
                out == result'.value
                maps == section.mud_weight * section.tvd * Conv
                load == Max2(DiffMud(section),
                             Min2(FracCeiling(section), MapsCeiling(section, maps)))
            IN /\ out.maps = maps
               /\ out.burst_load = load
               /\ out.burst_df = IF load > 0 THEN Ratio(section.burst_strength, load)
                                 ELSE Infinity
               /\ DOMAIN out = DOMAIN section \cup {"maps", "burst_load", "burst_df"}
               /\ \A k \in DOMAIN section \ {"maps", "burst_load", "burst_df"} :
                     out[k] = section[k]
               /\ args'.sec1 = out]_vars
    /\ Abs(SoloExample.maps - 77922100) <= 100
    /\ ~SoloExample.burst_df.inf

C16_Witness ==
    /\ result.fn = "calculateSoloMapsBurstLoadDF"
    /\ args.sec1 = result.value
    /\ result.value.maps > 0
    /\ result.value.burst_load > 0
    /\ result.value.burst_load < FracCeiling(result.value)
    /\ ~result.value.burst_df.inf

DerivedTop == IF NumSections = 0 THEN top ELSE Sec(NumSections).bottom
DerivedBottom == IF NumSections = 0 THEN bottom ELSE DictGet(Sec(1), "md_top", Sec(1).top)

\* Some section of d has the fields of kwargs other than top and bottom.
Carries(sec, kwargs) == Drop(sec, {"top", "bottom"}) = Drop(kwargs, {"top", "bottom"})

\* C18 (as claimed): the section staged by a successful addSection call has
\* the derived boundary (top in top-down, bottom in bottom-up), whatever top
\* or bottom its record carries.
C18_Claim ==
    [][\A kwargs \in AsmRecords :
          (phase = "built" /\ Positional /\ MissingOf(kwargs) = <<>>
             /\ add_section_with_properties(kwargs) /\ raised' = "none")
          => \E i \in 1..Len(sections') :
                /\ Carries(sections'[i].val, kwargs)
                /\ IF method = "top_down"
                   THEN sections'[i].val.top = DerivedTop
                   ELSE sections'[i].val.bottom = DerivedBottom]_vars

\* The sections of d in table order start at well.top and each starts where
\* the one before it ends.
Chain(d) ==
    Len(d) = 0 \/ (/\ d[1].val.top = top
                   /\ \A i \in 2..Len(d) : d[i].val.top = d[i - 1].val.bottom)
\* A chain none of whose sections ends above its own top.
GoodChain(d) == Chain(d) /\ \A i \in 1..Len(d) : d[i].val.bottom >= d[i].val.top

\* C19 (as claimed): top-down, after any sequence of addSection calls section
\* 0 starts at well.top and every later section starts at the bottom of the
\* section before it.
C19_Claim ==
    (phase = "built" /\ method = "top_down" /\ Positional) => Chain(sections)

\* C19 (amended): top-down, a successful addSection call whose record carries
\* no top and whose bottom is not above the derived top keeps a chain of
\* sections that do not end above their tops such a chain.
C19_ChainStep ==
    [][\A kwargs \in AsmRecords :
          (phase = "built" /\ method = "top_down" /\ Positional
             /\ GoodChain(sections)
             /\ MissingOf(kwargs) = <<>> /\ "top" \notin DOMAIN kwargs
             /\ kwargs.bottom >= DerivedTop
             /\ add_section_with_properties(kwargs))
          => raised' = "none" /\ GoodChain(sections')
               /\ Len(sections') = NumSections + 1]_vars

C19_Witness ==
    /\ phase = "built" /\ method = "top_down" /\ Positional /\ op = "add"
    /\ NumSections = 3 /\ GoodChain(sections)
    /\ \A i \in 1..NumSections : "top" \in DOMAIN Sec(i)
    /\ Sec(1).bottom < Sec(2).bottom /\ Sec(2).bottom < Sec(3).bottom

\* The staged sections no other staged section starts above.
Shallowest == { i \in 1..NumSections : \A j \in 1..NumSections : Sec(i).top <= Sec(j).top }

\* C20 (as claimed): bottom-up, the first staged section's bottom is
\* well.bottom and every later section's bottom is the measured-depth top (or
\* else the top) of the shallowest section staged at the time of the call.
C20_Claim ==
    [][\A kwargs \in AsmRecords :
          (phase = "built" /\ method = "bottom_up" /\ Positional
             /\ MissingOf(kwargs) = <<>>
             /\ add_section_with_properties(kwargs) /\ raised' = "none")
          => \E i \in 1..Len(sections') :
                /\ Carries(sections'[i].val, kwargs)
                /\ IF NumSections = 0
                   THEN sections'[i].val.bottom = bottom
                   ELSE \E k \in Shallowest :
                          sections'[i].val.bottom = DictGet(Sec(k), "md_top", Sec(k).top)]_vars

\* The top the specification gives a bottom-up section with the fields of
\* kwargs and the stored bottom b.
ClaimedTop(kwargs, b) ==
    IF "length" \in DOMAIN kwargs THEN Max2(b - kwargs.length, top)
    ELSE IF "top" \in DOMAIN kwargs THEN kwargs.top
    ELSE top

\* C21 (as claimed): bottom-up, the section staged by a successful addSection
\* call has the top max(bottom - length, well.top) if its record has a length,
\* else the record's top, else well.top, with bottom the stored bottom.
C21_Claim ==
    [][\A kwargs \in AsmRecords :
          (phase = "built" /\ method = "bottom_up" /\ Positional
             /\ MissingOf(kwargs) = <<>>
             /\ add_section_with_properties(kwargs) /\ raised' = "none")
          => \E i \in 1..Len(sections') :
                /\ Carries(sections'[i].val, kwargs)
                /\ sections'[i].val.top
                     = ClaimedTop(kwargs, sections'[i].val.bottom)]_vars

\* ------------------------------------------------------ ordering properties
\* The table d is in the order of the strategy's sort key.
SortedByKey(d) ==
    \A i \in 1..(Len(d) - 1) :
       IF method = "top_down"
       THEN TopKey(d[i].val) <= TopKey(d[i + 1].val)
       ELSE BottomKey(d[i].val) >= BottomKey(d[i + 1].val)

\* C22: after every successful addSection call the keys are exactly 0..n-1
\* in table order and the sections are sorted by non-decreasing top
\* (top-down) or by non-increasing md_bottom-else-bottom (bottom-up).
C22_SortedReindexed ==
    [][(phase = "built" /\ op' = "add" /\ raised' = "none")
          => /\ Len(sections') > 0
             /\ \A i \in 1..Len(sections') : sections'[i].key = IdxKey(i - 1)
             /\ SortedByKey(sections')]_vars

C22_Witness ==
    /\ phase = "built" /\ method = "bottom_up" /\ op = "add" /\ raised = "none"
    /\ NumSections = 3 /\ Positional /\ SortedByKey(sections)
    /\ \E i \in 1..2 : /\ "md_bottom" \in DOMAIN Sec(i)
                       /\ Sec(i).bottom < Sec(i + 1).bottom

\* ------------------------------------------------------- tension properties
\* The terms of the specification's tension formulas for a computed entry:
\* the weight term in pounds, the steel area in 1/Scale4 square inches and
\* the buoyancy term in 1/Scale4 psi.
WeightTermOf(e) ==
    IF e.bottom = max_md_depth THEN e.weight * Abs(e.bottom - tol)
    ELSE e.weight * e.bottom
SteelAreaOf(e) == PiOver4 * (e.od * e.od - e.csg_internal_diameter * e.csg_internal_diameter)
BuoyancyTermOf(e) ==
    IF e.bottom = max_md_depth
    THEN TruncDiv(Conv * e.mud_weight * Abs(e.tvd - max_tvd_depth), Scale4)
    ELSE TruncDiv(Conv * e.mud_weight * e.tvd, Scale4)

\* C23: on every computed section tension_air is the weight term (weight *
\* bottom, or weight * abs(bottom - tol) when bottom = max_md_depth) and
\* tension_buoyed is tension_air less buoyancy term times steel area.
C23_WeightTerm ==
    \A e \in Computed :
       /\ e.tension_air = WeightTermOf(e)
       /\ e.tension_buoyed = e.tension_air * Scale - BuoyancyTermOf(e) * SteelAreaOf(e)

C23_Witness ==
    /\ CalcDone /\ tol > 0
    /\ \E e \in Computed : /\ e.bottom = max_md_depth /\ e.weight > 0
                           /\ e.tension_air < e.weight * e.bottom
                           /\ e.tension_buoyed < e.tension_air * Scale
    /\ \E e \in Computed : e.bottom # max_md_depth /\ e.tension_air = e.weight * e.bottom

\* -------------------------------------------------------- cement properties
\* The last direct run of the calculator returned a record.
Returned == result.fn = "CasingDataCalc" /\ result.raised = "none"

\* C24 (as claimed): toc = max(0, bottom - cement_height) with cement_height
\* 0 when od <= 0; toc >= 0; and toc <= bottom whenever cement_height >= 0.
C24_Claim ==
    Returned =>
       LET h == result.value.cement_height
           b == args.casing.bottom * 100
           toc == result.value.toc
       IN /\ toc = Max2(0, b - h)
          /\ (args.casing.od <= 0) => h = 0
          /\ toc >= 0
          /\ (h >= 0) => toc <= b

\* C24 (amended): as claimed, but toc <= bottom only when cement_height >= 0
\* and bottom >= 0; for a negative bottom toc is 0, above the bottom.
C24_TopOfCement ==
    Returned =>
       LET h == result.value.cement_height
           b == args.casing.bottom * 100
           toc == result.value.toc
       IN /\ toc = Max2(0, b - h)
          /\ (args.casing.od <= 0) => h = 0
          /\ toc >= 0
          /\ (h >= 0 /\ b >= 0) => toc <= b
          /\ (b < 0 /\ h >= 0) => (toc = 0 /\ toc > b)

C24_Witness ==
    /\ Returned
    /\ result.value.cement_height > 0
    /\ result.value.toc > 0
    /\ result.value.toc < args.casing.bottom * 100

\* ---------------------------------------------------------- flag properties
\* C25: once the completeness flag is true, no addSection call and no
\* calculation pass sets it back to false.
C25_Monotone ==
    [][(phase = "built" /\ complete) => complete']_vars

C25_Witness ==
    /\ phase = "built" /\ method = "bottom_up" /\ complete
    /\ op = "add" /\ raised = "none" /\ Positional /\ NumSections >= 2
    /\ Sec(1).top # top

\* --------------------------------------------------------- frame properties
ValuesOf(d) == [i \in 1..Len(d) |-> d[i].val]
Count(q, v) == Cardinality({ i \in 1..Len(q) : q[i] = v })

\* The values of q are those of p and one more.
OneMore(p, q) ==
    /\ Len(q) = Len(p) + 1
    /\ \E k \in 1..Len(q) :
          \A i \in 1..Len(q) :
             Count(q, q[i]) = Count(p, q[i]) + (IF q[i] = q[k] THEN 1 ELSE 0)

\* C26: a successful addSection call adds exactly one section, keeps every
\* field of every section staged before, and keeps the well's top, bottom,
\* tol, maximum depths, fracture gradient and strategy.
C26_AddFrame ==
    [][(phase = "built" /\ op' = "add" /\ raised' = "none")
          => /\ OneMore(ValuesOf(sections), ValuesOf(sections'))
             /\ wellParams' = wellParams]_vars

C26_Witness ==
    /\ phase = "built" /\ op = "add" /\ raised = "none" /\ Positional
    /\ NumSections = 3
    /\ Sec(1) # Sec(2) /\ Sec(2) # Sec(3) /\ Sec(1) # Sec(3)
    /\ "length" \in DOMAIN Sec(2)

\* The fields of a section that are not written by the calculation pass.
RawFieldsOf(sec) == DOMAIN sec \ (DerivedFields \cup {"collapse_strength"})

\* C27 (as claimed): the calculation pass runs on a built well whatever the
\* flag (on an incomplete well whose sections all have a cement height it
\* returns), and it leaves the flag, the well's parameters, the number of
\* sections and every raw field of every section unchanged.
C27_Claim ==
    [][/\ (phase = "built" /\ ~complete /\ Positional /\ NumSections > 0
             /\ \A i \in 1..NumSections : ~CementHeightRaises(Sec(i)))
            => calcPass(sections).raised = "none"
       /\ (phase = "built" /\ op' = "calc")
            => /\ complete' = complete
               /\ wellParams' = wellParams
               /\ Len(sections') = Len(sections)
               /\ \A i \in 1..Len(sections) :
                     /\ i <= Len(sections')
                     /\ \A f \in RawFieldsOf(sections[i].val) :
                           /\ f \in DOMAIN sections'[i].val
                           /\ sections'[i].val[f] = sections[i].val[f]]_vars

\* --------------------------------------------------- solo-mode properties
\* C28: the solo results of a section are its pairwise results against
\* itself: maps = calculate_maps(s, s), burst_load = calculate_burst_load(s,
\* s, maps) and the burst_df the pass derives from that load.
C28_SoloIsSelfPair ==
    (result.fn = "calculateSoloMapsBurstLoadDF") =>
       LET s == args.sec1
           maps == calculate_maps(s, s)
           load == calculate_burst_load(s, s, maps)
       IN /\ result.value.maps = maps
          /\ result.value.burst_load = load
          /\ result.value.burst_df = BurstDF(s.burst_strength, load)

C28_Witness ==
    /\ result.fn = "calculateSoloMapsBurstLoadDF"
    /\ args.sec1.int_gradient > 0 /\ args.sec1.backup_mud > 0
    /\ result.value.maps > 0
    /\ result.value.burst_load = DiffMud(args.sec1)
    /\ FracCeiling(args.sec1) > result.value.burst_load
    /\ result.value.burst_df = Infinity

\* ------------------------------------------------- failing-pass properties
\* C29: the pass on a well without sections raises a lookup error on
\* section 0 of the single-section branch, calls no solo calculation and
\* leaves the empty collection as it was.
C29_EmptyWell ==
    [][(phase = "built" /\ sections = <<>> /\ op' = "calc")
          => /\ SoloIndex(NumSections) = 0
             /\ raised' = "KeyError"
             /\ sections' = <<>>
             /\ solo_calls' = <<>>]_vars

C29_Witness ==
    /\ phase = "built" /\ op = "calc" /\ raised = "KeyError"
    /\ sections = <<>> /\ solo_calls = <<>>

\* Section i has pipe and a washed-out hole exactly as wide as the pipe.
HoleEqualsPipe(i) ==
    /\ Sec(i).od > 0
    /\ Sec(i).hole_size * (100 + Sec(i).washout) = 100 * Sec(i).od

PairFields == {"maps", "burst_load", "burst_df"}

\* The sections before k carry their calculator results and no pair results
\* once the pass has failed at section k (counted from 1), and the table is
\* still keyed by position.
ComputedBefore(k) ==
    /\ raised' = "ZeroDivisionError"
    /\ Len(sections') = NumSections
    /\ \A i \in 1..NumSections :
          /\ sections'[i].key = IdxKey(i - 1)
          /\ i < k => /\ ~CementHeightRaises(Sec(i))
                      /\ sections'[i].val = Update(Sec(i), calculateData(Sec(i), univ_params))
                      /\ DOMAIN sections'[i].val \cap PairFields = {}

\* C30 as stated: for any staged section k with a hole as wide as its pipe,
\* the pass fails at section k and the sections from k on carry no derived
\* results.
C30_Claim ==
    [][(phase = "built" /\ Positional /\ op' = "calc")
          => \A k \in 1..NumSections :
                HoleEqualsPipe(k)
                   => /\ ComputedBefore(k)
                      /\ \A i \in k..NumSections :
                            DOMAIN sections'[i].val \cap DerivedFields = {}]_vars

\* C30: when section k has a hole as wide as its pipe and no earlier section
\* has a zero annular area around its pipe, the pass raises
\* ZeroDivisionError at section k: the sections before k
\* carry their calculator results but no maps, burst_load or burst_df, the
\* sections from k on are left as they were, and the table is still keyed
\* by position.
C30_PartialPass ==
    [][(phase = "built" /\ Positional /\ op' = "calc")
          => \A k \in 1..NumSections :
                (HoleEqualsPipe(k) /\ \A j \in 1..(k - 1) : ~CementHeightRaises(Sec(j)))
                   => /\ ComputedBefore(k)
                      /\ \A i \in k..NumSections : sections'[i].val = Sec(i)]_vars

C30_Witness ==
    /\ phase = "built" /\ op = "calc" /\ raised = "ZeroDivisionError"
    /\ Positional /\ NumSections = 3
    /\ ~HoleEqualsPipe(1) /\ HoleEqualsPipe(2)
    /\ "cement_height" \in DOMAIN Sec(1) /\ "maps" \notin DOMAIN Sec(1)
    /\ DOMAIN Sec(2) \cap DerivedFields = {}
    /\ DOMAIN Sec(3) \cap DerivedFields = {}

====
